---- MODULE Spec2Model ----
(***************************************************************************)
(* The streaming chat session of the ChatInterface component               *)
(* (src/unnamed/part_000): the React state of the component, the           *)
(* handleSendMessage handler cut at its suspension points (the await of    *)
(* fetch and each await of reader.read) and the transport as the           *)
(* environment that resolves or rejects those awaits.                      *)
(*                                                                         *)
(* JavaScript runs a handler from one await to the next without           *)
(* interleaving, so each such run is one step.  React renders after the    *)
(* state updates of a run, before the next event or resolved await is      *)
(* handled: a handler reads the state as the last step left it, and what   *)
(* it reads from its closure (messages in getConversationHistory, the      *)
(* flags in the early return) is the state before its own updates.         *)
(*                                                                         *)
(* Spec takes the value of a read as the lines chunk.split('\n') makes of  *)
(* it, HistSpec takes a submit on a longer transcript, and StreamSpec      *)
(* takes one exchange whose body arrives as bytes, cut into reads at any   *)
(* byte, through TextDecoder, split and JSON.parse.                        *)
(*                                                                         *)
(* Text is a sequence of one-character strings.  A JavaScript value that   *)
(* may be undefined is a record [def, val].                                *)
(***************************************************************************)
EXTENDS Integers, Sequences, FiniteSets, TLC

(* ------------------------------ bounds --------------------------------- *)
\* submits the session accepts
MaxSubmits == 2
\* messages after which no further reply is started
MaxMessages == 3
\* lines the transport delivers over one run of the model
MaxWire == 3
\* messages of the longest transcript the history is taken from
MaxTranscript == 7
\* reads a body of bytes is delivered in
MaxReads == 2

(* --------------------------- program constants ------------------------- *)
\* messages.slice(-6)
HistoryLimit == 6

(* ------------------------------- values -------------------------------- *)
UndefS == [def |-> FALSE, val |-> <<>>]
UndefB == [def |-> FALSE, val |-> FALSE]
DefS(s) == [def |-> TRUE, val |-> s]
DefB(b) == [def |-> TRUE, val |-> b]
\* JavaScript truthiness of a string or undefined, and of a boolean or undefined
TruthyS(v) == v.def /\ v.val # <<>>
TruthyB(v) == v.def /\ v.val

\* the error state: string | null
Null == [isNull |-> TRUE, message |-> <<>>]
ErrorText(m) == [isNull |-> FALSE, message |-> m]

\* a thrown value: an Error object with its message, or something else
ErrorObj(m) == [isError |-> TRUE, message |-> m]
NonError == [isError |-> FALSE, message |-> <<>>]

\* what the user can type into the textarea
InputTexts == { <<>>, <<" ">>, <<" ", "b", " ">> }

\* the parsed wire payloads {chunk?: string, done?: bool, error?: string}
StreamData(c, d, e) == [chunk |-> c, done |-> d, error |-> e]
Payloads ==
    { StreamData(DefS(<<"x">>), UndefB, UndefS),
      StreamData(DefS(<<"y">>), DefB(FALSE), UndefS),
      StreamData(DefS(<<>>), DefB(TRUE), UndefS),
      StreamData(DefS(<<"x">>), DefB(TRUE), UndefS),
      StreamData(UndefS, UndefB, DefS(<<"b">>)) }

\* one element of chunk.split('\n'): whether it starts with 'data: ', and
\* what JSON.parse makes of the rest (parses = FALSE: it throws SyntaxError)
NoData == StreamData(UndefS, UndefB, UndefS)
OtherLine == [data |-> FALSE, parses |-> FALSE, json |-> NoData]
MalformedLine == [data |-> TRUE, parses |-> FALSE, json |-> NoData]
DataLine(p) == [data |-> TRUE, parses |-> TRUE, json |-> p]
Lines == { OtherLine, MalformedLine } \cup { DataLine(p) : p \in Payloads }

\* the responses fetch can resolve with
Response(ok, status, text, body) ==
    [ok |-> ok, status |-> status, statusText |-> text, body |-> body]
Responses ==
    { Response(TRUE, 200, <<"OK">>, TRUE),
      Response(TRUE, 200, <<"OK">>, FALSE),
      Response(FALSE, 500, <<"Internal Server Error">>, TRUE) }

\* what a failing fetch or reader.read can reject with
Thrown == { ErrorObj(<<"Failed to fetch">>), NonError }

(* ---------------------------- React state ------------------------------ *)
VARIABLES
    messages,      \* useState<Message[]>
    inputMessage,  \* useState('')
    isLoading,     \* useState(false)
    isStreaming,   \* useState(false)
    error,         \* useState<string | null>(null)
    calls,         \* the activations of handleSendMessage, in call order
    requests,      \* the bodies of the POSTs issued with fetch, in order
    wire,          \* history: the lines read in the latest exchange
    delivered,     \* history: the number of lines read in all exchanges
    body,          \* the bytes of the response body, where a read is bytes
    decoder,       \* new TextDecoder(): the bytes of an incomplete character
    reads          \* history: the value and the decoded text of each read

vars == << messages, inputMessage, isLoading, isStreaming, error,
           calls, requests, wire, delivered, body, decoder, reads >>
\* the variables of a read taken byte by byte
stream == << body, decoder, reads >>

(* ------------------------------ helpers -------------------------------- *)
IsSpace(c) == c = " "

\* String.prototype.trim
RECURSIVE TrimStart(_)
TrimStart(s) ==
    IF s # <<>> /\ IsSpace(Head(s)) THEN TrimStart(Tail(s)) ELSE s
RECURSIVE TrimEnd(_)
TrimEnd(s) ==
    IF s # <<>> /\ IsSpace(s[Len(s)])
    THEN TrimEnd(SubSeq(s, 1, Len(s) - 1))
    ELSE s
\* trim that leaves the spaces at the end
TrimStartOnly(s) == TrimStart(s)
Trim(s) == TrimEnd(TrimStart(s))

\* slice(0, n) in the place of slice(-n)
SliceFirst(xs, n) ==
    IF Len(xs) <= n THEN xs ELSE SubSeq(xs, 1, n)
\* Array.prototype.slice(-n)
SliceLast(xs, n) ==
    IF Len(xs) <= n THEN xs ELSE SubSeq(xs, Len(xs) - n + 1, Len(xs))

\* the id '1' of the greeting; it is shorter than any generated id
GreetingId == 1

\* Date.now().toString() + Math.random().toString(36).substr(2, 9): the
\* clock reading followed by a random suffix.  Nothing keeps two calls from
\* reading the same millisecond and drawing the same suffix, so a call
\* yields an id no message has or, when both collide, the id of a message
\* created earlier.  Ids are numbered in the order they first appear.
generateId(msgs, collides) ==
    LET used == { msgs[k].id : k \in 1..Len(msgs) }
        fresh == 1 + CHOOSE m \in used : \A n \in used : n <= m
    IN  IF collides THEN used \ {GreetingId} ELSE {fresh}

\* a Message; its timestamp (new Date(), only ever rendered) is left out
NewMessage(id, content, role) ==
    [id |-> id, content |-> content, role |-> role]

\* messages.slice(-6).map(msg => ({role, content})) over the messages of
\* the render the handler was created in
getConversationHistory(msgs) ==
    LET last == SliceLast(msgs, HistoryLimit)
    IN  [k \in 1..Len(last) |-> [role |-> last[k].role, content |-> last[k].content]]

\* an early return that does not look at isStreaming
CanSendWhileStreaming(input, loading, streaming) ==
    ~(Trim(input) = <<>> \/ loading)
\* the negation of the early return of handleSendMessage
CanSend(input, loading, streaming) ==
    ~(Trim(input) = <<>> \/ loading \/ streaming)

\* a POST whose history is taken after the user message was appended
RequestBodyAfterAppend(userMessage, msgs) ==
    [message |-> userMessage.content,
     conversation_history |-> getConversationHistory(Append(msgs, userMessage))]
\* the body of the POST
RequestBody(userMessage, msgs) ==
    [message |-> userMessage.content,
     conversation_history |-> getConversationHistory(msgs)]

\* prev.map(msg => msg.id === assistantMessageId ? {...msg, content} : msg)
UpdateContent(msgs, id, content) ==
    [k \in 1..Len(msgs) |->
        IF msgs[k].id = id THEN [msgs[k] EXCEPT !.content = content] ELSE msgs[k]]

\* error instanceof Error ? error.message : 'Error desconocido'
CatchMessage(thrown) ==
    IF thrown.isError THEN thrown.message ELSE <<"Error desconocido">>

\* an HTTP error that names the status alone
HttpErrorStatusOnly(response) ==
    ErrorObj(<<"HTTP ", ToString(response.status)>>)
\* `HTTP ${response.status}: ${response.statusText}`
HttpError(response) ==
    ErrorObj(<<"HTTP ", ToString(response.status), ": ">> \o response.statusText)

NoReaderError == ErrorObj(<<"No se pudo leer la respuesta del servidor">>)
SyntaxError == ErrorObj(<<"SyntaxError">>)

(* ------------------- the body of the for loop over lines ---------------- *)
NotRaised == [def |-> FALSE, val |-> NonError]
Raised(e) == [def |-> TRUE, val |-> e]

\* an inner catch that throws what it caught on to the outer catch
InnerCatchRethrows(st, thrown) == [st EXCEPT !.raised = Raised(thrown)]
\* catch (parseError) { console.warn(...) }: the inner catch swallows
\* whatever the try block threw
InnerCatch(st, thrown) == st

\* if (data.chunk && !data.done)
ShouldAppend(data) == TruthyS(data.chunk) /\ ~TruthyB(data.done)

\* a fragment put in front of the content
AppendChunkInFront(st, data) ==
    LET content == data.chunk.val \o st.content
    IN  [st EXCEPT !.content = content,
                   !.messages = UpdateContent(st.messages, st.id, content)]
\* assistantContent += data.chunk; setMessages(prev => prev.map(...))
AppendChunk(st, data) ==
    LET content == st.content \o data.chunk.val
    IN  [st EXCEPT !.content = content,
                   !.messages = UpdateContent(st.messages, st.id, content)]

\* a done payload that clears the flag and lets the loop go on
FinishWithoutReturn(st) == [st EXCEPT !.isStreaming = FALSE]
\* if (data.done) { setIsStreaming(false); return; }
Finish(st) == [st EXCEPT !.isStreaming = FALSE, !.returned = TRUE]

\* one iteration of for (const line of lines)
HandleLine(line, st) ==
    IF ~line.data THEN st
    ELSE IF ~line.parses THEN InnerCatch(st, SyntaxError)
    ELSE LET data == line.json
         IN  IF TruthyS(data.error)
             THEN InnerCatch(st, ErrorObj(data.error.val))
             ELSE LET st1 == IF ShouldAppend(data) THEN AppendChunk(st, data) ELSE st
                  IN  IF TruthyB(data.done) THEN Finish(st1) ELSE st1

RECURSIVE ProcessLines(_, _)
ProcessLines(lines, st) ==
    IF lines = <<>> \/ st.returned \/ st.raised.def
    THEN st
    ELSE ProcessLines(Tail(lines), HandleLine(Head(lines), st))

(* ----------------------- a read taken byte by byte ---------------------- *)
\* the characters the bodies are written with and their code points; a
\* character outside ASCII is written as the name of its code point
Alphabet ==
    { "\n", " ", "\"", ":", "\\", "{", "}", "a", "b", "c", "d", "e", "h", "k",
      "n", "o", "r", "t", "u", "x", "y", "U+00E9", "U+20AC", "U+FFFD" }
CodePoint(c) ==
    CASE c = "\n" -> 10   [] c = " " -> 32    [] c = "\"" -> 34  [] c = ":" -> 58
      [] c = "\\" -> 92   [] c = "{" -> 123   [] c = "}" -> 125  [] c = "a" -> 97
      [] c = "b" -> 98    [] c = "c" -> 99    [] c = "d" -> 100  [] c = "e" -> 101
      [] c = "h" -> 104   [] c = "k" -> 107   [] c = "n" -> 110  [] c = "o" -> 111
      [] c = "r" -> 114   [] c = "t" -> 116   [] c = "u" -> 117  [] c = "x" -> 120
      [] c = "y" -> 121   [] c = "U+00E9" -> 233  [] c = "U+20AC" -> 8364
      [] c = "U+FFFD" -> 65533
Characters ==
    [cp \in { CodePoint(c) : c \in Alphabet } |->
        CHOOSE c \in Alphabet : CodePoint(c) = cp]
CharOf(cp) ==
    IF cp \in DOMAIN Characters THEN Characters[cp] ELSE ToString(cp)
\* what a decoder puts in the place of bytes that are no character
Replacement == "U+FFFD"

\* the UTF-8 bytes of a code point below 2^16, as the server writes them
Utf8(cp) ==
    IF cp < 128 THEN << cp >>
    ELSE IF cp < 2048 THEN << 192 + (cp \div 64), 128 + (cp % 64) >>
    ELSE << 224 + (cp \div 4096), 128 + ((cp \div 64) % 64), 128 + (cp % 64) >>
RECURSIVE Encode(_)
Encode(text) ==
    IF text = <<>> THEN <<>>
    ELSE Utf8(CodePoint(Head(text))) \o Encode(Tail(text))

\* the UTF-8 decoder of TextDecoder: the number of bytes a lead byte
\* announces (0: no lead byte), and the code point of a complete sequence
BytesNeeded(b) ==
    IF b < 128 THEN 1
    ELSE IF b \in 194..223 THEN 2
    ELSE IF b \in 224..239 THEN 3
    ELSE IF b \in 240..244 THEN 4
    ELSE 0
IsContinuation(b) == b \in 128..191
CodePointOf(bs) ==
    CASE Len(bs) = 1 -> bs[1]
      [] Len(bs) = 2 -> (bs[1] - 192) * 64 + (bs[2] - 128)
      [] Len(bs) = 3 -> (bs[1] - 224) * 4096 + (bs[2] - 128) * 64 + (bs[3] - 128)
      [] Len(bs) = 4 -> (bs[1] - 240) * 262144 + (bs[2] - 128) * 4096
                        + (bs[3] - 128) * 64 + (bs[4] - 128)

\* the decoder over the bytes of one value: pending holds the bytes of a
\* character that is not complete, out the characters decoded so far
RECURSIVE DecodeBytes(_, _, _)
DecodeBytes(bytes, pending, out) ==
    IF bytes = <<>> THEN [pending |-> pending, text |-> out]
    ELSE LET b == Head(bytes)
         IN  IF pending = <<>>
             THEN IF BytesNeeded(b) = 0
                  THEN DecodeBytes(Tail(bytes), <<>>, Append(out, Replacement))
                  ELSE IF BytesNeeded(b) = 1
                  THEN DecodeBytes(Tail(bytes), <<>>, Append(out, CharOf(b)))
                  ELSE DecodeBytes(Tail(bytes), << b >>, out)
             ELSE IF IsContinuation(b)
                  THEN LET seq == Append(pending, b)
                       IN  IF Len(seq) = BytesNeeded(seq[1])
                           THEN DecodeBytes(Tail(bytes), <<>>,
                                            Append(out, CharOf(CodePointOf(seq))))
                           ELSE DecodeBytes(Tail(bytes), seq, out)
                  ELSE DecodeBytes(bytes, <<>>, Append(out, Replacement))

\* decoder.decode(value): without the stream option the end of the value
\* is the end of the input, and an incomplete character is replaced
DecodeNoStream(value, pending) ==
    LET r == DecodeBytes(value, pending, <<>>)
    IN  IF r.pending = <<>> THEN r
        ELSE [pending |-> <<>>, text |-> Append(r.text, Replacement)]
\* decoder.decode(value, {stream: true}): an incomplete character at the
\* end of the value is kept for the next call
Decode(value, pending) == DecodeBytes(value, pending, <<>>)

\* String.prototype.split with a separator of one character
RECURSIVE Split(_, _)
Split(s, sep) ==
    IF \A k \in 1..Len(s) : s[k] # sep THEN << s >>
    ELSE LET k == CHOOSE j \in 1..Len(s) :
                      s[j] = sep /\ \A h \in 1..(j - 1) : s[h] # sep
         IN  << SubSeq(s, 1, k - 1) >> \o Split(SubSeq(s, k + 1, Len(s)), sep)

\* String.prototype.startsWith, and its mirror image
StartsWith(s, p) == Len(s) >= Len(p) /\ SubSeq(s, 1, Len(p)) = p
EndsWith(s, p) == Len(s) >= Len(p) /\ SubSeq(s, Len(s) - Len(p) + 1, Len(s)) = p
\* String.prototype.slice(n)
Slice(s, n) == SubSeq(s, n + 1, Len(s))

\* 'data: '
DataPrefix == << "d", "a", "t", "a", ":", " " >>

\* the JSON texts of the wire format: {"chunk":"..."}, {"error":"..."}
\* and {"done":true}
ChunkOpen == << "{", "\"", "c", "h", "u", "n", "k", "\"", ":", "\"" >>
ErrorOpen == << "{", "\"", "e", "r", "r", "o", "r", "\"", ":", "\"" >>
StringClose == << "\"", "}" >>
DoneText == << "{", "\"", "d", "o", "n", "e", "\"", ":", "t", "r", "u", "e", "}" >>

\* s is an object with one string field: open, characters that need no
\* escape, close
IsStringField(s, open) ==
    /\ StartsWith(s, open)
    /\ EndsWith(s, StringClose)
    /\ Len(s) >= Len(open) + Len(StringClose)
    /\ \A k \in (Len(open) + 1)..(Len(s) - Len(StringClose)) :
            s[k] \notin { "\"", "\\", "\n" }
FieldText(s, open) == SubSeq(s, Len(open) + 1, Len(s) - Len(StringClose))

\* JSON.parse on the texts of the wire format; every other text a line of
\* these bodies can be cut into is no JSON text, and JSON.parse throws
JSONParse(s) ==
    IF s = DoneText
    THEN [parses |-> TRUE, json |-> StreamData(UndefS, DefB(TRUE), UndefS)]
    ELSE IF IsStringField(s, ChunkOpen)
    THEN [parses |-> TRUE,
          json |-> StreamData(DefS(FieldText(s, ChunkOpen)), UndefB, UndefS)]
    ELSE IF IsStringField(s, ErrorOpen)
    THEN [parses |-> TRUE,
          json |-> StreamData(UndefS, UndefB, DefS(FieldText(s, ErrorOpen)))]
    ELSE [parses |-> FALSE, json |-> NoData]

\* what the for loop sees of one element of chunk.split('\n')
LineOf(piece) ==
    IF ~StartsWith(piece, DataPrefix) THEN OtherLine
    ELSE LET r == JSONParse(Slice(piece, 6))
         IN  IF r.parses THEN DataLine(r.json) ELSE MalformedLine
\* chunk.split('\n')
LinesOf(chunk) ==
    LET pieces == Split(chunk, "\n")
    IN  [k \in 1..Len(pieces) |-> LineOf(pieces[k])]

\* the lines a server writes, and the bodies of the responses
ChunkLine(s) == DataPrefix \o ChunkOpen \o s \o StringClose \o << "\n" >>
DoneLine == DataPrefix \o DoneText \o << "\n" >>
Bodies ==
    { Encode(ChunkLine(<< "x", "U+00E9" >>) \o DoneLine),
      Encode(ChunkLine(<< "U+20AC" >>) \o ChunkLine(<< "y" >>)) }

(* ------------------------------ the state ------------------------------ *)
\* the greeting useState starts the transcript with; its text is one letter
Greeting == NewMessage(GreetingId, <<"g">>, "assistant")

\* the locals of one activation of handleSendMessage: where it is suspended
\* and, once declared, assistantMessageId and assistantContent
NoId == 0
Activation(pc, id, content) ==
    [pc |-> pc, assistantMessageId |-> id, assistantContent |-> content]
Returned == Activation("returned", NoId, <<>>)

Init ==
    /\ messages = << Greeting >>
    /\ inputMessage = <<>>
    /\ isLoading = FALSE
    /\ isStreaming = FALSE
    /\ error = Null
    /\ calls = <<>>
    /\ requests = <<>>
    /\ wire = <<>>
    /\ delivered = 0
    /\ body = <<>>
    /\ decoder = <<>>
    /\ reads = <<>>

\* {isLoading && !isStreaming && (...)}: the typing indicator is rendered
TypingIndicator == isLoading /\ ~isStreaming

\* the transcript has room for the placeholder of a reply
Room == Len(messages) < MaxMessages

\* the activations suspended at an await
InFlight == { i \in 1..Len(calls) : calls[i].pc # "returned" }

(* ------------------------------ handlers ------------------------------- *)
\* handleInputChange: setInputMessage(e.target.value)
handleInputChange ==
    /\ \E v \in InputTexts : inputMessage' = v
    /\ UNCHANGED << messages, isLoading, isStreaming, error, calls, requests,
                    wire, delivered >>
    /\ UNCHANGED stream

\* handleSendMessage when the early return is taken
SendIgnored ==
    /\ ~CanSend(inputMessage, isLoading, isStreaming)
    /\ UNCHANGED vars

\* handleSendMessage up to the await of fetch: the user message, the five
\* state updates and the POST, whose history is read from the messages of
\* the render the handler belongs to
SendAccepted ==
    /\ CanSend(inputMessage, isLoading, isStreaming)
    /\ \E collides \in BOOLEAN : \E id \in generateId(messages, collides) :
        LET userMessage == NewMessage(id, Trim(inputMessage), "user")
        IN  /\ messages' = Append(messages, userMessage)
            /\ requests' = Append(requests, RequestBody(userMessage, messages))
    /\ inputMessage' = <<>>
    /\ isLoading' = TRUE
    /\ isStreaming' = TRUE
    /\ error' = Null
    /\ calls' = Append(calls, Activation("fetch", NoId, <<>>))
    /\ wire' = <<>>
    /\ UNCHANGED delivered
    /\ UNCHANGED stream

\* a catch that records the error and leaves isStreaming set
OuterCatchKeepsStreaming(i, thrown) ==
    /\ error' = ErrorText(CatchMessage(thrown))
    /\ isLoading' = FALSE
    /\ UNCHANGED isStreaming
    /\ calls' = [calls EXCEPT ![i] = Returned]
\* a catch that clears isStreaming and leaves isLoading as it is
OuterCatchKeepsLoading(i, thrown) ==
    /\ error' = ErrorText(CatchMessage(thrown))
    /\ UNCHANGED isLoading
    /\ isStreaming' = FALSE
    /\ calls' = [calls EXCEPT ![i] = Returned]
\* catch (error) { setError(...); setIsLoading(false); setIsStreaming(false) }
\* ends activation i
OuterCatch(i, thrown) ==
    /\ error' = ErrorText(CatchMessage(thrown))
    /\ isLoading' = FALSE
    /\ isStreaming' = FALSE
    /\ calls' = [calls EXCEPT ![i] = Returned]

\* fetch rejects: the await throws into the outer catch
FetchRejected(i) ==
    /\ calls[i].pc = "fetch"
    /\ \E thrown \in Thrown : OuterCatch(i, thrown)
    /\ UNCHANGED << messages, inputMessage, requests, wire, delivered >>
    /\ UNCHANGED stream

\* fetch resolves with a status that is not ok: throw new Error(`HTTP ...`)
FetchFailed(i) ==
    /\ calls[i].pc = "fetch"
    /\ \E response \in Responses :
        /\ ~response.ok
        /\ OuterCatch(i, HttpError(response))
    /\ UNCHANGED << messages, inputMessage, requests, wire, delivered >>
    /\ UNCHANGED stream

\* a handler that starts to read without appending the placeholder
FetchOkWithoutPlaceholder(i) ==
    /\ calls[i].pc = "fetch"
    /\ Room
    /\ \E response \in Responses :
       \E assistantMessageId \in generateId(messages, FALSE) :
            /\ response.ok
            /\ IF response.body
               THEN /\ isLoading' = FALSE
                    /\ calls' = [calls EXCEPT ![i] =
                                    Activation("read", assistantMessageId, <<>>)]
                    /\ UNCHANGED << isStreaming, error >>
               ELSE OuterCatch(i, NoReaderError)
    /\ decoder' = <<>>
    /\ UNCHANGED << messages, inputMessage, requests, wire, delivered, body, reads >>
\* fetch resolves ok: the placeholder is appended, isLoading is cleared, the
\* decoder is created, and either the body has no reader (throw) or the
\* first reader.read is awaited
FetchOk(i) ==
    /\ calls[i].pc = "fetch"
    /\ Room
    /\ \E response \in Responses, collides \in BOOLEAN :
       \E assistantMessageId \in generateId(messages, collides) :
        LET assistantMessage == NewMessage(assistantMessageId, <<>>, "assistant")
        IN  /\ response.ok
            /\ messages' = Append(messages, assistantMessage)
            /\ IF response.body
               THEN /\ isLoading' = FALSE
                    /\ calls' = [calls EXCEPT ![i] =
                                    Activation("read", assistantMessageId, <<>>)]
                    /\ UNCHANGED << isStreaming, error >>
               ELSE OuterCatch(i, NoReaderError)
    /\ decoder' = <<>>
    /\ UNCHANGED << inputMessage, requests, wire, delivered, body, reads >>

\* the state the for loop starts from in activation i
LoopState(i) ==
    [id |-> calls[i].assistantMessageId,
     content |-> calls[i].assistantContent,
     messages |-> messages,
     isStreaming |-> isStreaming,
     returned |-> FALSE,
     raised |-> NotRaised]

\* the reads the body can deliver: chunk.split('\n') is never empty
Reads(n) == UNION { [1..k -> Lines] : k \in 1..n }

\* reader.read resolves with a value: decode, split, the for loop, and then
\* the next read, the return after done, or the outer catch
ReadValue(i) ==
    /\ calls[i].pc = "read"
    /\ delivered < MaxWire
    /\ \E lines \in Reads(MaxWire - delivered) :
        LET st == ProcessLines(lines, LoopState(i))
        IN  /\ wire' = wire \o lines
            /\ delivered' = delivered + Len(lines)
            /\ messages' = st.messages
            /\ IF st.raised.def
               THEN OuterCatch(i, st.raised.val)
               ELSE /\ isStreaming' = st.isStreaming
                    /\ calls' = [calls EXCEPT ![i] =
                                    IF st.returned
                                    THEN Returned
                                    ELSE Activation("read", st.id, st.content)]
                    /\ UNCHANGED << isLoading, error >>
    /\ UNCHANGED << inputMessage, requests >>
    /\ UNCHANGED stream

\* reader.read resolves with done: break, and the function ends
ReadDone(i) ==
    /\ calls[i].pc = "read"
    /\ calls' = [calls EXCEPT ![i] = Returned]
    /\ UNCHANGED << messages, inputMessage, isLoading, isStreaming, error,
                    requests, wire, delivered >>
    /\ UNCHANGED stream

\* a failing read that takes the unfinished reply out of the transcript
ReadRejectedRollsBack(i) ==
    /\ calls[i].pc = "read"
    /\ \E thrown \in Thrown : OuterCatch(i, thrown)
    /\ messages' = SubSeq(messages, 1, Len(messages) - 1)
    /\ UNCHANGED << inputMessage, requests, wire, delivered >>
    /\ UNCHANGED stream
\* reader.read rejects: the await throws into the outer catch
ReadRejected(i) ==
    /\ calls[i].pc = "read"
    /\ \E thrown \in Thrown : OuterCatch(i, thrown)
    /\ UNCHANGED << messages, inputMessage, requests, wire, delivered >>
    /\ UNCHANGED stream

\* the bytes of the body the reads have delivered, and the bytes to come
RECURSIVE Values(_)
Values(rs) == IF rs = <<>> THEN <<>> ELSE Head(rs).value \o Values(Tail(rs))
Unread == SubSeq(body, Len(Values(reads)) + 1, Len(body))

\* reader.read resolves with the next bytes of the body, as many as the
\* transport has at hand: decode, split, the for loop, and then the next
\* read, the return after done, or the outer catch
ReadBytes(i) ==
    /\ calls[i].pc = "read"
    /\ Len(reads) < MaxReads
    /\ \E n \in 1..Len(Unread) :
       \E decoded \in { Decode(SubSeq(Unread, 1, n), decoder) } :
       \E lines \in { LinesOf(decoded.text) } :
       \E st \in { ProcessLines(lines, LoopState(i)) } :
            /\ decoder' = decoded.pending
            /\ reads' = Append(reads, [value |-> SubSeq(Unread, 1, n),
                                       chunk |-> decoded.text])
            /\ wire' = wire \o lines
            /\ delivered' = delivered + Len(lines)
            /\ messages' = st.messages
            /\ IF st.raised.def
               THEN OuterCatch(i, st.raised.val)
               ELSE /\ isStreaming' = st.isStreaming
                    /\ calls' = [calls EXCEPT ![i] =
                                    IF st.returned
                                    THEN Returned
                                    ELSE Activation("read", st.id, st.content)]
                    /\ UNCHANGED << isLoading, error >>
    /\ UNCHANGED << inputMessage, requests, body >>

\* reader.read resolves with done once the body has been delivered
BodyDone(i) == Unread = <<>> /\ ReadDone(i)

\* an accepted submit of the bounded session
Send == Len(requests) < MaxSubmits /\ SendAccepted

Next ==
    \/ handleInputChange
    \/ SendIgnored
    \/ Send
    \/ \E i \in 1..Len(calls) : FetchRejected(i)
    \/ \E i \in 1..Len(calls) : FetchFailed(i)
    \/ \E i \in 1..Len(calls) : FetchOk(i)
    \/ \E i \in 1..Len(calls) : ReadValue(i)
    \/ \E i \in 1..Len(calls) : ReadDone(i)
    \/ \E i \in 1..Len(calls) : ReadRejected(i)

Spec == Init /\ [][Next]_vars

(* ------------- the history of a submit on a longer transcript ---------- *)
\* what a message after the greeting can be: a user turn, or the reply to
\* the user turn before it
Turns == { NewMessage(NoId, <<"b">>, "user"),
           NewMessage(NoId, <<>>, "assistant"),
           NewMessage(NoId, <<"x">>, "assistant") }

\* the transcripts of n messages a session can have built, ids in order
TranscriptsOf(n) ==
    { [k \in 1..n |-> IF k = 1 THEN Greeting ELSE [f[k] EXCEPT !.id = k]] :
        f \in { g \in [1..n -> Turns] :
                  \A k \in 2..n : g[k].role = "assistant" => g[k - 1].role = "user" } }

Transcripts == UNION { TranscriptsOf(n) : n \in 1..MaxTranscript }

\* an idle session whose transcript earlier exchanges have built
HistInit ==
    /\ messages \in Transcripts
    /\ inputMessage = <<>>
    /\ isLoading = FALSE
    /\ isStreaming = FALSE
    /\ error = Null
    /\ calls = <<>>
    /\ requests = <<>>
    /\ wire = <<>>
    /\ delivered = 0
    /\ body = <<>>
    /\ decoder = <<>>
    /\ reads = <<>>

\* the next submit of that session
HistSend == requests = <<>> /\ SendAccepted

HistNext ==
    \/ handleInputChange
    \/ SendIgnored
    \/ HistSend

HistSpec == HistInit /\ [][HistNext]_vars

(* ------------------- an exchange whose reads are bytes ----------------- *)
\* the first exchange of a session after fetch has resolved ok: the user
\* message and the placeholder are in the transcript, the decoder is new
\* and the first reader.read is awaited
StreamInit ==
    LET userMessage == NewMessage(2, <<"b">>, "user")
        assistantMessage == NewMessage(3, <<>>, "assistant")
    IN  /\ messages = << Greeting, userMessage, assistantMessage >>
        /\ inputMessage = <<>>
        /\ isLoading = FALSE
        /\ isStreaming = TRUE
        /\ error = Null
        /\ calls = << Activation("read", assistantMessage.id, <<>>) >>
        /\ requests = << RequestBody(userMessage, << Greeting >>) >>
        /\ wire = <<>>
        /\ delivered = 0
        /\ body \in Bodies
        /\ decoder = <<>>
        /\ reads = <<>>

StreamNext ==
    \/ handleInputChange
    \/ SendIgnored
    \/ \E i \in 1..Len(calls) : ReadBytes(i)
    \/ \E i \in 1..Len(calls) : BodyDone(i)
    \/ \E i \in 1..Len(calls) : ReadRejected(i)

StreamSpec == StreamInit /\ [][StreamNext]_vars

(* ===================== the properties of the session =================== *)
\* what the properties say about a line of the wire, independently of the
\* for loop
IsErrorPayload(l) ==
    l.data /\ l.parses /\ l.json.error.def /\ l.json.error.val # <<>>
IsDonePayload(l) ==
    l.data /\ l.parses /\ ~IsErrorPayload(l) /\ l.json.done.def /\ l.json.done.val
IsChunkPayload(l) ==
    l.data /\ l.parses /\ ~IsErrorPayload(l) /\ ~IsDonePayload(l) /\ l.json.chunk.def
IsMalformed(l) == l.data /\ ~l.parses

\* the fragments of the chunk payloads of w, concatenated in order
RECURSIVE FragmentsOf(_)
FragmentsOf(w) ==
    IF w = <<>> THEN <<>>
    ELSE (IF IsChunkPayload(Head(w)) THEN Head(w).json.chunk.val ELSE <<>>)
         \o FragmentsOf(Tail(w))

Last(xs) == xs[Len(xs)]
Idle == ~isLoading /\ ~isStreaming
HasText(s) == \E k \in 1..Len(s) : s[k] # " "
Spaces(n) == [k \in 1..n |-> " "]
\* c is s without the spaces at its two ends
IsTrimOf(c, s) ==
    /\ c = <<>> \/ (c[1] # " " /\ c[Len(c)] # " ")
    /\ \E i, j \in 0..Len(s) : s = Spaces(i) \o c \o Spaces(j)
Entry(m) == [role |-> m.role, content |-> m.content]
\* this step issues a POST
Posts == requests' # requests
\* this step appends a user message
AppendsUserTurn ==
    Len(messages') > Len(messages) /\ Last(messages').role = "user"

\* C1: a submit while an exchange is awaiting or streaming, or with blank
\* input, changes nothing: a user message is appended or a POST issued
\* only from an idle session with non-blank input, and at most one
\* activation of the handler is ever suspended at an await.
C1_SingleFlight ==
    /\ [][(Posts \/ AppendsUserTurn) => (Idle /\ HasText(inputMessage))]_vars
    /\ [](Cardinality(InFlight) <= 1)

\* a submit arrives with text typed while the reply is streaming
C1_Witness ==
    /\ InFlight # {}
    /\ isStreaming /\ ~isLoading
    /\ HasText(inputMessage)
    /\ Len(requests) = 1

\* C2: when reader.read reports done before any done payload was seen, no
\* error is recorded, the transcript keeps the accumulated content and the
\* session is idle again.
C2_EofCompletes ==
    [][(\E i \in 1..Len(calls) : ReadDone(i))
        => (error' = Null /\ messages' = messages /\ Idle')]_vars

\* C3: the first error payload of an exchange ends it: the error state
\* holds its text, the session is released and the assistant content is
\* what the chunks before it accumulated.
C3_ErrorPayloadTerminal ==
    \A k \in 1..Len(wire) :
        (/\ IsErrorPayload(wire[k])
         /\ \A j \in 1..(k - 1) : ~IsErrorPayload(wire[j]) /\ ~IsDonePayload(wire[j]))
        => /\ error = ErrorText(wire[k].json.error.val)
           /\ Idle
           /\ InFlight = {}
           /\ Last(messages).content = FragmentsOf(SubSeq(wire, 1, k - 1))

\* C4: every accepted submit releases the session: once the transport has
\* answered and every activation of the handler has run to its end, the
\* flags are clear and a submit with text is accepted again.
C4_ReleasedWhenReturned ==
    InFlight = {} => (Idle /\ CanSend(<<"b">>, isLoading, isStreaming))

\* C5 as stated: the history of a POST ends with the user turn the submit
\* has just appended.
C5_HistoryEndsWithUserTurn ==
    [][Posts =>
        LET r == Last(requests')
            h == r.conversation_history
        IN  /\ h # <<>>
            /\ Last(h) = [role |-> "user", content |-> r.message]
            /\ Last(h) = Entry(Last(messages'))]_vars

\* C5 as amended: the history of a POST is taken from the transcript as it
\* stood before the user message of this submit was appended: it ends with
\* the message that was last before the submit, and the new question is
\* sent in the message field alone.
C5_HistoryPrecedesUserTurn ==
    [][Posts =>
        LET r == Last(requests')
            h == r.conversation_history
            n == Len(messages)
        IN  /\ Len(messages') = n + 1
            /\ messages'[n + 1].role = "user"
            /\ r.message = messages'[n + 1].content
            /\ Len(h) = (IF n < 6 THEN n ELSE 6)
            /\ Last(h) = Entry(messages[n])]_vars

\* a submit whose history is full and ends with an assistant reply
C5_Witness ==
    /\ requests # <<>>
    /\ Len(Last(requests).conversation_history) = 6
    /\ Last(Last(requests).conversation_history).role = "assistant"
    /\ Last(messages).role = "user"

\* C6: after chunk payloads followed by a done payload the assistant
\* message holds the fragments concatenated in the order received, and the
\* session is idle without an error.
ChunksThenDone(w) ==
    /\ w # <<>>
    /\ IsDonePayload(Last(w))
    /\ \A k \in 1..(Len(w) - 1) : IsChunkPayload(w[k])

C6_ChunksConcatenated ==
    ChunksThenDone(wire)
    => /\ InFlight = {}
       /\ Idle
       /\ error = Null
       /\ Last(messages).role = "assistant"
       /\ Last(messages).content = FragmentsOf(wire)

\* two different fragments and then done
C6_Witness ==
    /\ ChunksThenDone(wire)
    /\ Len(wire) = 3
    /\ Last(messages).content = <<"x", "y">>

\* C7: a submit from an idle session with non-blank text is accepted, and
\* the step that issues the POST appends exactly one user message, whose
\* content is the trimmed text.
C7_SubmitAppendsUserTurn ==
    /\ []((Idle /\ HasText(inputMessage)) => ENABLED SendAccepted)
    /\ [][Posts =>
            LET n == Len(messages)
            IN  /\ Len(messages') = n + 1
                /\ SubSeq(messages', 1, n) = messages
                /\ messages'[n + 1].role = "user"
                /\ IsTrimOf(messages'[n + 1].content, inputMessage)
                /\ Len(requests') = Len(requests) + 1
                /\ Last(requests').message = messages'[n + 1].content]_vars

\* the text " b " has just been submitted
C7_Witness ==
    /\ Len(requests) = 1
    /\ isLoading
    /\ Last(messages) = NewMessage(2, <<"b">>, "user")
    /\ inputMessage = <<>>

\* C8: a status that is not ok fails the exchange before any assistant
\* message exists: the transcript still ends with the user message, the
\* error holds the status and the status text, and the session is released.
C8_HttpFailure ==
    [][(\E i \in 1..Len(calls) : FetchFailed(i))
        => /\ messages' = messages
           /\ Last(messages').role = "user"
           /\ \E response \in Responses :
                /\ ~response.ok
                /\ error' = ErrorText(<<"HTTP ", ToString(response.status), ": ">>
                                      \o response.statusText)
           /\ Idle'
           /\ InFlight' = {}]_vars

\* the first exchange has failed with status 500
C8_Witness ==
    /\ error = ErrorText(<<"HTTP ", "500", ": ", "Internal Server Error">>)
    /\ Len(messages) = 2
    /\ InFlight = {}

\* C9: a read whose data lines are chunk payloads and lines that fail to
\* parse applies the fragments in order and changes nothing else: the
\* error, the flags and the suspended activation stay as they were.
C9_MalformedDropped ==
    [][(/\ Len(wire') > Len(wire)
        /\ LET new == SubSeq(wire', Len(wire) + 1, Len(wire'))
           IN  /\ \E k \in 1..Len(new) : IsMalformed(new[k])
               /\ \A k \in 1..Len(new) : IsMalformed(new[k]) \/ IsChunkPayload(new[k]))
        => /\ Last(messages').content =
                Last(messages).content
                \o FragmentsOf(SubSeq(wire', Len(wire) + 1, Len(wire')))
           /\ error' = error
           /\ isLoading' = isLoading
           /\ isStreaming' = isStreaming
           /\ InFlight' = InFlight]_vars

\* a line that fails to parse between two chunks
C9_Witness ==
    /\ Len(wire) = 3
    /\ IsChunkPayload(wire[1]) /\ IsMalformed(wire[2]) /\ IsChunkPayload(wire[3])
    /\ Last(messages).content = <<"x", "y">>
    /\ isStreaming

\* C10: the history of a POST is the last min(6, n) messages of the n
\* messages it is taken from, in their order, each as {role, content}, and
\* taking it leaves those messages as they were.
C10_HistoryIsSuffix ==
    [][Posts =>
        LET h == Last(requests').conversation_history
            n == Len(messages)
        IN  /\ Len(h) = (IF n < 6 THEN n ELSE 6)
            /\ \A k \in 1..Len(h) :
                h[k] = [role |-> messages[n - Len(h) + k].role,
                        content |-> messages[n - Len(h) + k].content]
            /\ SubSeq(messages', 1, n) = messages]_vars

\* a submit on a transcript of seven messages
C10_Witness ==
    /\ requests # <<>>
    /\ Len(messages) = 8
    /\ Len(Last(requests).conversation_history) = 6

(* ================= the properties of a read of bytes =================== *)
\* the text the decoder has returned over the reads, in order
RECURSIVE Chunks(_)
Chunks(rs) == IF rs = <<>> THEN <<>> ELSE Head(rs).chunk \o Chunks(Tail(rs))

\* C11: decoding is stateful across reads: however the bytes of the body
\* are cut into reads, the text decoded so far followed by the bytes the
\* decoder holds back is the text of the bytes delivered, so a character
\* whose bytes are split across two reads comes out as that character, and
\* no read decodes to a replacement character.
C11_DecodingIsStateful ==
    /\ Encode(Chunks(reads)) \o decoder = Values(reads)
    /\ \A k \in 1..Len(reads) : \A j \in 1..Len(reads[k].chunk) :
            reads[k].chunk[j] # Replacement

\* the two bytes of U+00E9 arrived in two consecutive reads, and the second
\* read decoded to text that starts with U+00E9
C11_Witness ==
    /\ Len(reads) = 2
    /\ Last(reads[1].value) = 195
    /\ Head(reads[2].value) = 169
    /\ Head(reads[2].chunk) = "U+00E9"

(* ============== further properties of the session (Spec) =============== *)
\* C12: once a done payload has been processed the session stops
\* consuming: the content is what the chunk payloads before the first done
\* payload accumulated (a chunk in the done payload and the lines after it
\* add nothing), the handler has returned, so that no further read is
\* awaited, and the session is idle without an error.
C12_DoneStopsConsuming ==
    \A k \in 1..Len(wire) :
        (IsDonePayload(wire[k]) /\ \A j \in 1..(k - 1) : ~IsDonePayload(wire[j]))
        => /\ Last(messages).content = FragmentsOf(SubSeq(wire, 1, k - 1))
           /\ InFlight = {}
           /\ Idle
           /\ error = Null

\* one read brought a chunk, a done payload that carries a chunk, and a
\* chunk after it: the content is the first chunk alone
C12_Witness ==
    /\ Len(wire) = 3
    /\ IsChunkPayload(wire[1])
    /\ IsDonePayload(wire[2]) /\ TruthyS(wire[2].json.chunk)
    /\ IsChunkPayload(wire[3])
    /\ Last(messages).content = wire[1].json.chunk.val
    /\ Idle

\* C13: a read that fails ends the exchange in error: the error holds the
\* reason of the failure, both flags are clear and the handler has
\* returned, and the transcript is what it was when the read failed, the
\* unfinished assistant message with its partial content included.
C13_ReadFailureKeepsPartial ==
    [][(\E i \in 1..Len(calls) : ReadRejected(i))
        => /\ messages' = messages
           /\ Last(messages').role = "assistant"
           /\ ~error'.isNull
           /\ error'.message \in { <<"Failed to fetch">>, <<"Error desconocido">> }
           /\ Idle'
           /\ InFlight' = {}]_vars

\* the read after the fragment "x" failed with an Error
C13_Witness ==
    /\ error = ErrorText(<<"Failed to fetch">>)
    /\ Last(messages) = NewMessage(3, <<"x">>, "assistant")
    /\ Len(wire) = 1
    /\ InFlight = {}
    /\ Idle

\* this step is the handler resuming after fetch resolved with an ok status
ResumesOk == \E i \in 1..Len(calls) : FetchOk(i)
\* this step appends the empty placeholder of the reply
AppendsPlaceholder ==
    /\ Len(messages') = Len(messages) + 1
    /\ SubSeq(messages', 1, Len(messages)) = messages
    /\ Last(messages').role = "assistant"
    /\ Last(messages').content = <<>>
\* the message activation i updates is in the transcript
HasPlaceholder(i) ==
    \E k \in 1..Len(messages) :
        messages[k].id = calls[i].assistantMessageId /\ messages[k].role = "assistant"

\* C14 as stated: on an ok status the empty placeholder is appended and
\* the session is streaming (isLoading false, isStreaming true), the first
\* read being awaited.
C14_SuccessStartsStreaming ==
    [][ResumesOk
        => /\ AppendsPlaceholder
           /\ ~isLoading' /\ isStreaming'
           /\ \E i \in InFlight' : calls'[i].pc = "read"]_vars

\* C14 as amended: on an ok status the empty placeholder is appended and
\* isLoading is cleared; with a body to read, the session is streaming and
\* the first read is awaited, and with none the exchange ends in error
\* with the placeholder left in the transcript.  Wherever a read is
\* awaited, and so wherever a fragment is applied, the session is
\* streaming and the placeholder is in the transcript.
C14_PlaceholderBeforeFirstRead ==
    /\ [][ResumesOk
            => /\ AppendsPlaceholder
               /\ ~isLoading'
               /\ IF InFlight' # {}
                  THEN /\ isStreaming' /\ error' = Null
                       /\ \A i \in InFlight' :
                            calls'[i] = Activation("read", Last(messages').id, <<>>)
                  ELSE /\ ~isStreaming'
                       /\ error' = ErrorText(<<"No se pudo leer la respuesta del servidor">>)]_vars
    /\ [](\A i \in InFlight :
            calls[i].pc = "read" => (~isLoading /\ isStreaming /\ HasPlaceholder(i)))
    /\ [][messages' # messages /\ Len(messages') = Len(messages)
            => \E i \in InFlight : calls[i].pc = "read" /\ HasPlaceholder(i)]_vars

\* the first read of the first reply is awaited
C14_Witness ==
    /\ InFlight # {}
    /\ \A i \in InFlight : calls[i] = Activation("read", 3, <<>>)
    /\ Last(messages) = NewMessage(3, <<>>, "assistant")
    /\ ~isLoading /\ isStreaming
    /\ wire = <<>>

\* the SessionState the three state values stand for
SessionState ==
    CASE isLoading /\ isStreaming /\ error = Null -> "awaitingResponse"
      [] ~isLoading /\ isStreaming /\ error = Null -> "streamingAssistantReply"
      [] ~isLoading /\ ~isStreaming /\ error = Null -> "idle"
      [] ~isLoading /\ ~isStreaming /\ error # Null -> "error"
      [] OTHER -> "none"

Transitions ==
    { << "idle", "awaitingResponse" >>,
      << "awaitingResponse", "streamingAssistantReply" >>,
      << "streamingAssistantReply", "idle" >>,
      << "awaitingResponse", "error" >>,
      << "streamingAssistantReply", "error" >>,
      << "error", "awaitingResponse" >> }

\* C15: the session is always in one of the four states, and a step that
\* changes the state takes one of the transitions idle -> awaitingResponse
\* -> streamingAssistantReply -> idle, awaitingResponse -> error,
\* streamingAssistantReply -> error and error -> awaitingResponse.
C15_StateMachine ==
    /\ [](SessionState # "none")
    /\ [][SessionState' # SessionState
            => << SessionState, SessionState' >> \in Transitions]_vars

\* the second submit was accepted after a first exchange that streamed "x"
C15_Witness ==
    /\ SessionState = "awaitingResponse"
    /\ Len(requests) = 2
    /\ Len(messages) = 4
    /\ messages[3] = NewMessage(3, <<"x">>, "assistant")
    /\ messages[4].role = "user"

\* what of a message never changes: its id and role (and its timestamp,
\* which is carried along with them)
Identity(m) == [id |-> m.id, role |-> m.role]
DistinctIds(msgs) ==
    \A j, k \in 1..Len(msgs) : j # k => msgs[j].id # msgs[k].id
IsPrefix(s, t) == Len(s) <= Len(t) /\ SubSeq(t, 1, Len(s)) = s

\* C16: the transcript is append-only: every step leaves the messages it
\* finds in their places with their ids and roles, so that an earlier
\* transcript is always a prefix of a later one, and the ids of the
\* transcript are pairwise distinct.
C16_AppendOnlyDistinctIds ==
    [][/\ Len(messages') >= Len(messages)
       /\ \A k \in 1..Len(messages) : Identity(messages'[k]) = Identity(messages[k])
       /\ DistinctIds(messages')]_vars

\* C17: a step that changes the content of a message changes that of the
\* assistant message in progress alone, the last of the transcript while
\* its exchange is reading, and only by extending it; the content of every
\* other message, and of a message whose exchange has ended, stays.
C17_OnlyInProgressExtended ==
    [][\A k \in 1..Len(messages) :
            messages'[k].content # messages[k].content
            => /\ k = Len(messages)
               /\ messages[k].role = "assistant"
               /\ \E i \in InFlight :
                    calls[i].pc = "read" /\ calls[i].assistantMessageId = messages[k].id
               /\ IsPrefix(messages[k].content, messages'[k].content)]_vars

\* what the for loop makes of a body that arrives in a single read
OneRead(b) ==
    ProcessLines(LinesOf(Decode(b, <<>>).text),
                 [id |-> 3,
                  content |-> <<>>,
                  messages |-> << NewMessage(3, <<>>, "assistant") >>,
                  isStreaming |-> TRUE,
                  returned |-> FALSE,
                  raised |-> NotRaised])

\* C18: the reply does not depend on how the transport cuts the bytes of
\* the body into reads: once the body has been delivered, or the handler
\* has returned, without a failure of the transport, the content of the
\* assistant message and the flags are those a single read of the whole
\* body gives.
C18_PartitionIndependent ==
    (reads # <<>> /\ error = Null /\ (Unread = <<>> \/ InFlight = {}))
    => /\ Last(messages).content = OneRead(body).content
       /\ isStreaming = OneRead(body).isStreaming
       /\ ~isLoading

\* C19: an error is on display only while no exchange is active: whenever
\* error is not null both flags are clear and no activation of the handler
\* is suspended, and the step that issues a POST leaves error null.
C19_ErrorOnlyWhenReleased ==
    /\ [](error # Null => (~isLoading /\ ~isStreaming /\ InFlight = {}))
    /\ [][Posts => error' = Null]_vars

\* the second submit was accepted after the first fetch failed, which is
\* the only way the first exchange ends without a reply in the transcript
C19_Witness ==
    /\ Len(requests) = 2
    /\ Len(messages) = 3
    /\ messages[2].role = "user" /\ messages[3].role = "user"
    /\ error = Null
    /\ isLoading /\ isStreaming

\* C20: isLoading implies isStreaming in every reachable state, so the
\* condition the typing indicator is rendered under is never true.
C20_LoadingImpliesStreaming ==
    /\ isLoading => isStreaming
    /\ ~TypingIndicator

\* the request of a submit is awaited: both flags are set
C20_Witness ==
    /\ isLoading /\ isStreaming
    /\ \E i \in InFlight : calls[i].pc = "fetch"
    /\ ~TypingIndicator

====
